---- MODULE Spec2Model ----
(***************************************************************************)
(* A model of the EMS API route handlers (Next.js route handlers over a    *)
(* Prisma store): the registration workflow (register, login, approve /    *)
(* reject), the user endpoints, and the team and task endpoints.           *)
(*                                                                         *)
(* The store is the four tables User, Temp_User, Team and Task.  A row is  *)
(* a record; a table is a function from the ids in use to rows.  Ids are   *)
(* generated by the store and never handed out twice, which the counters   *)
(* nextUser, nextPending, nextTeam and nextTask model.  Id 0 stands for    *)
(* null / undefined, and the empty string for a missing string field.      *)
(*                                                                         *)
(* Every handler sets resp: the operation, the entity addressed, the HTTP   *)
(* status and the error text of its response.                              *)
(***************************************************************************)
EXTENDS Integers, Sequences, FiniteSets, TLC

\* ------------------------------------------------------------------ bounds
MaxPending == 2     \* Temp_User rows ever created
MaxUsers == 3       \* User rows ever created
MaxTasks == 1       \* Task rows ever created
MaxInFlight == 2    \* requests being handled at once
MaxTeams == 3       \* Team rows ever created, the seeded ones included

\* ------------------------------------------------------------- input sets
Null == 0
Empty == ""
Emails == {"a@x", "b@x"}
Names == {"Ann"}
Passwords == {"pw1", "pw2"}
Roles == {"admin", "manager", "employee"}
NoToken == [id |-> 0, role |-> "none"]

VARIABLES users, pending, teams, tasks, tokens, resp,
          nextUser, nextPending, nextTeam, nextTask,
          approvedFrom, rejected, clearedTeams, registered, reqs

vars == <<users, pending, teams, tasks, tokens, resp,
          nextUser, nextPending, nextTeam, nextTask,
          approvedFrom, rejected, clearedTeams, registered, reqs>>

store == <<users, pending, teams, tasks>>
counters == <<nextUser, nextPending, nextTeam, nextTask>>
history == <<approvedFrom, rejected, clearedTeams, registered>>

\* registered notes, for every Temp_User id ever created, the email and the
\* password hash it was registered with.
\* Temp_User ids that were approved (user.create ran) or rejected
disposed == approvedFrom \cup rejected

\* ----------------------------------------------------------------- helpers
Put(f, k, v) == [x \in DOMAIN f \cup {k} |-> IF x = k THEN v ELSE f[x]]
Drop(f, k) == [x \in DOMAIN f \ {k} |-> f[x]]

Response(op, id, email, status, error) ==
  [op |-> op, id |-> id, email |-> email, status |-> status, error |-> error]

\* bcrypt: a one-way hash, and the comparison of a password with a hash
hashPassword(password) == <<"bcrypt", password>>
comparePassword(password, hash) == hash = hashPassword(password)

\* jwt.sign / jwt.verify: the claims a token carries
generateToken(id, role) == [id |-> id, role |-> role]

\* verifyToken: a request carries a token the server signed, or none that
\* verifies (missing, malformed, expired, wrongly signed)
Callers == tokens \cup {NoToken}
TokenValid(tok) == tok # NoToken

UserByEmail(email) == {u \in DOMAIN users : users[u].email = email}
PendingByEmail(email) == {p \in DOMAIN pending : pending[p].email = email}

EmailUniqueViolated_Never(email, userId) == FALSE

\* User.email is unique (user.findUnique({where: {email}}) looks rows up by
\* it): a write that would give the row userId (Null for a new row) an email
\* that another row holds is refused by the store.
EmailUniqueViolated(email, userId) == UserByEmail(email) \ {userId} # {}

\* The role a User row gets when user.create is given none
DefaultRole == "employee"

\* ------------------------------------------------------------------- state
\* The seeded deployment: one admin, who has logged in once.
SeedUsers ==
  (1 :> [name |-> "Root", email |-> "root@x", password |-> hashPassword("pw0"),
         role |-> "admin", teamId |-> Null])

InitReg ==
  /\ users = SeedUsers
  /\ pending = <<>>
  /\ teams = <<>>
  /\ tasks = <<>>
  /\ tokens = {generateToken(1, "admin")}
  /\ resp = Response("none", 0, Empty, 0, Empty)
  /\ nextUser = 2
  /\ nextPending = 1
  /\ nextTeam = 1
  /\ nextTask = 1
  /\ approvedFrom = {}
  /\ rejected = {}
  /\ clearedTeams = {}
  /\ registered = <<>>
  /\ reqs = <<>>

\* ------------------------------------------------- POST /api/auth/register
EmailRegistered_Never(email) == FALSE

\* prisma.user.findUnique({ where: { email } }) found a User
EmailRegistered(email) == UserByEmail(email) # {}

Register(name, email, password) ==
  /\ UNCHANGED <<users, teams, tasks, tokens, nextUser, nextTeam, nextTask,
                 approvedFrom, rejected, clearedTeams, reqs>>
  /\ IF name = Empty \/ email = Empty \/ password = Empty
     THEN /\ resp' = Response("register", 0, email, 400,
                              "All fields required")
          /\ UNCHANGED <<pending, nextPending, registered>>
     ELSE IF EmailRegistered(email)
     THEN /\ resp' = Response("register", 0, email, 400,
                              "Email already registered")
          /\ UNCHANGED <<pending, nextPending, registered>>
     ELSE IF PendingByEmail(email) # {}
     THEN \* temp_User.create violates the unique email of Temp_User
          /\ resp' = Response("register", 0, email, 500,
                              "Internal server error")
          /\ UNCHANGED <<pending, nextPending, registered>>
     ELSE /\ nextPending <= MaxPending
          /\ pending' = Put(pending, nextPending,
                            [name |-> name, email |-> email,
                             password |-> hashPassword(password)])
          /\ registered' = Put(registered, nextPending,
                               [email |-> email,
                                password |-> hashPassword(password)])
          /\ nextPending' = nextPending + 1
          /\ resp' = Response("register", nextPending, email, 200,
                              Empty)

\* ---------------------------------------------------- POST /api/auth/login
AccountPending_UnlessUser(email) ==
  PendingByEmail(email) # {} /\ UserByEmail(email) = {}

\* prisma.temp_User.findUnique({ where: { email } }) found a Temp_User
AccountPending(email) == PendingByEmail(email) # {}

Login(email, password) ==
  /\ UNCHANGED <<store, counters, history, reqs>>
  /\ IF email = Empty \/ password = Empty
     THEN /\ resp' = Response("login", 0, email, 400,
                              "Missing credentials")
          /\ UNCHANGED tokens
     ELSE IF AccountPending(email)
     THEN /\ resp' = Response("login", 0, email, 403,
                              "Account pending approval")
          /\ UNCHANGED tokens
     ELSE IF UserByEmail(email) = {}
     THEN /\ resp' = Response("login", 0, email, 404,
                              "User not found")
          /\ UNCHANGED tokens
     ELSE LET u == CHOOSE x \in UserByEmail(email) : TRUE IN
          IF ~comparePassword(password, users[u].password)
          THEN /\ resp' = Response("login", u, email, 401,
                                   "Invalid password")
               /\ UNCHANGED tokens
          ELSE /\ tokens' = tokens \cup {generateToken(u, users[u].role)}
               /\ resp' = Response("login", u, email, 200, Empty)

\* --------------------------------------------------- POST /api/auth/logout
Logout(tok) ==
  /\ resp' = Response("logout", 0, Empty, 200, Empty)
  /\ UNCHANGED <<store, tokens, counters, history, reqs>>

\* -------------------------------------------------- POST /api/users/approve
\* approve is "true", "false" or "undefined"; userId 0 is a missing userId.
\* The handler never reads the session token.
ApprovedUser_NameFromEmail(t) ==
  [name |-> t.email, email |-> t.email, password |-> t.password,
   role |-> DefaultRole, teamId |-> Null]

\* the data of prisma.user.create: role and teamId take the schema's defaults
ApprovedUser(t) ==
  [name |-> t.name, email |-> t.email, password |-> t.password,
   role |-> DefaultRole, teamId |-> Null]

DeletePending_Kept(userId) == pending

\* prisma.temp_User.delete({ where: { id: userId } })
DeletePending(userId) == Drop(pending, userId)

ProcessRegistration(tok, userId, approve) ==
  /\ UNCHANGED <<teams, tasks, tokens, nextPending, nextTeam, nextTask, reqs>>
  /\ IF userId = Null
     THEN \* findUnique({where: {id: undefined}}) is rejected by the client
          /\ resp' = Response("process", userId, Empty, 500,
                              "Internal server error")
          /\ UNCHANGED <<users, pending, nextUser, history>>
     ELSE IF approve = "undefined"
     THEN /\ resp' = Response("process", userId, Empty, 400,
                              "Missing userId or approve flag")
          /\ UNCHANGED <<users, pending, nextUser, history>>
     ELSE IF userId \notin DOMAIN pending
     THEN /\ resp' = Response("process", userId, Empty, 404,
                              "User not found")
          /\ UNCHANGED <<users, pending, nextUser, history>>
     ELSE LET t == pending[userId] IN
          IF approve = "true" /\ UserByEmail(t.email) # {}
          THEN \* user.create violates the unique email of User
               /\ resp' = Response("process", userId, t.email, 500,
                                   "Internal server error")
               /\ UNCHANGED <<users, pending, nextUser, history>>
          ELSE /\ approve = "true" => nextUser <= MaxUsers
               /\ IF approve = "true"
                  THEN /\ users' = Put(users, nextUser, ApprovedUser(t))
                       /\ nextUser' = nextUser + 1
                       /\ approvedFrom' = approvedFrom \cup {userId}
                       /\ UNCHANGED rejected
                  ELSE /\ rejected' = rejected \cup {userId}
                       /\ UNCHANGED <<users, nextUser, approvedFrom>>
               /\ pending' = DeletePending(userId)
               /\ UNCHANGED <<clearedTeams, registered>>
               /\ resp' = Response("process", userId, t.email, 200, Empty)

\* ------------------------------------------------------- GET /api/users/me
MeGet(tok) ==
  /\ UNCHANGED <<store, tokens, counters, history, reqs>>
  /\ IF ~TokenValid(tok)
     THEN resp' = Response("users.me", 0, Empty, 401,
                           "Authentication required")
     ELSE IF tok.id \notin DOMAIN users
     THEN resp' = Response("users.me", tok.id, Empty, 404, "User not found")
     ELSE resp' = Response("users.me", tok.id, users[tok.id].email, 200,
                           Empty)

\* ------------------------------------------------------- PUT /api/users/me
\* body: [name, email, role, teamId]; Empty / Null is a field not submitted.
MeUpdateData_AnyField(u, body) ==
  [u EXCEPT !.name = IF body.name # Empty THEN body.name ELSE @,
            !.email = IF body.email # Empty THEN body.email ELSE @,
            !.role = IF body.role # Empty THEN body.role ELSE @,
            !.teamId = IF body.teamId # Null THEN body.teamId ELSE @]

\* the row after prisma.user.update with updateData, which takes name and
\* email from the body and nothing else
MeUpdateData(u, body) ==
  [u EXCEPT !.name = IF body.name # Empty THEN body.name ELSE @,
            !.email = IF body.email # Empty THEN body.email ELSE @]

UpdateMe(tok, body) ==
  /\ UNCHANGED <<pending, teams, tasks, tokens, counters, history, reqs>>
  /\ IF ~TokenValid(tok)
     THEN /\ resp' = Response("users.me.update", 0, body.email, 401,
                              "Authentication required")
          /\ UNCHANGED users
     ELSE IF body.name = Empty /\ body.email = Empty
     THEN /\ resp' = Response("users.me.update", tok.id, body.email, 400,
                              "No valid fields to update")
          /\ UNCHANGED users
     ELSE IF body.email # Empty /\ UserByEmail(body.email) \ {tok.id} # {}
     THEN /\ resp' = Response("users.me.update", tok.id, body.email, 400,
                              "Email already in use")
          /\ UNCHANGED users
     ELSE IF tok.id \notin DOMAIN users
     THEN \* user.update finds no record to update
          /\ resp' = Response("users.me.update", tok.id, body.email, 500,
                              "Failed to update user profile")
          /\ UNCHANGED users
     ELSE /\ users' = [users EXCEPT ![tok.id] = MeUpdateData(@, body)]
          /\ resp' = Response("users.me.update", tok.id, body.email, 200,
                              Empty)

\* ----------------------------------------------------- PUT /api/users/[id]
IsAdmin_AnyRole(tok) == TokenValid(tok)

\* isAdmin (checkAdmin) verifies the token and throws unless its role is
\* admin; the handler calls it before its try block.
IsAdmin(tok) == TokenValid(tok) /\ tok.role = "admin"

\* Role is a string column: what an admin writes into it is stored as is.
RoleStrings == Roles \cup {"intern"}

\* the row after prisma.user.update({where: {id}, data: body})
UserUpdateData(u, body) ==
  [u EXCEPT !.name = IF body.name # Empty THEN body.name ELSE @,
            !.email = IF body.email # Empty THEN body.email ELSE @,
            !.role = IF body.role # Empty THEN body.role ELSE @]

\* body: [name, email, role]; Empty is a field not submitted.
AdminUpdateUser(tok, userId, body) ==
  /\ UNCHANGED <<pending, teams, tasks, tokens, counters, history, reqs>>
  /\ IF ~IsAdmin(tok)
     THEN \* the exception of isAdmin leaves the handler
          /\ resp' = Response("users.update", userId, body.email, 500, Empty)
          /\ UNCHANGED users
     ELSE IF userId \notin DOMAIN users
     THEN /\ resp' = Response("users.update", userId, body.email, 404,
                              "User not found")
          /\ UNCHANGED users
     ELSE IF body.email # Empty /\ EmailUniqueViolated(body.email, userId)
     THEN \* user.update violates the unique email of User
          /\ resp' = Response("users.update", userId, body.email, 500,
                              "Failed to update user")
          /\ UNCHANGED users
     ELSE /\ users' = [users EXCEPT ![userId] = UserUpdateData(@, body)]
          /\ resp' = Response("users.update", userId, body.email, 200,
                              Empty)

\* ---------------------------------------------------------- GET /api/users
\* An exception of isAdmin leaves the handler, here and in the other
\* handlers that call it before their try block; the server then answers
\* 500 with no body.  resp notes the caller as id.
UsersList(tok) ==
  /\ UNCHANGED <<store, tokens, counters, history, reqs>>
  /\ IF ~IsAdmin(tok)
     THEN resp' = Response("users.list", tok.id, Empty, 500, Empty)
     ELSE resp' = Response("users.list", tok.id, Empty, 200, Empty)

\* ---------------------------------------------------------- PUT /api/users
\* body: [id, name, email, role]; id Null is a body without id.
UsersUpdate(tok, body) ==
  /\ UNCHANGED <<pending, teams, tasks, tokens, counters, history, reqs>>
  /\ IF ~IsAdmin(tok)
     THEN /\ resp' = Response("users.put", body.id, body.email, 500, Empty)
          /\ UNCHANGED users
     ELSE IF body.id = Null
     THEN /\ resp' = Response("users.put", body.id, body.email, 400,
                              "User ID is required")
          /\ UNCHANGED users
     ELSE IF \/ body.id \notin DOMAIN users
             \/ body.email # Empty /\ EmailUniqueViolated(body.email, body.id)
     THEN \* user.update finds no record to update, or violates the unique
          \* email of User
          /\ resp' = Response("users.put", body.id, body.email, 500,
                              "Failed to update user")
          /\ UNCHANGED users
     ELSE /\ users' = [users EXCEPT ![body.id] = UserUpdateData(@, body)]
          /\ resp' = Response("users.put", body.id, body.email, 200, Empty)

\* ----------------------------------------------------- GET /api/users/[id]
UserGet(tok, userId) ==
  /\ UNCHANGED <<store, tokens, counters, history, reqs>>
  /\ IF ~IsAdmin(tok)
     THEN resp' = Response("users.get", userId, Empty, 500, Empty)
     ELSE IF userId \notin DOMAIN users
     THEN resp' = Response("users.get", userId, Empty, 404, "User not found")
     ELSE resp' = Response("users.get", userId, users[userId].email, 200,
                           Empty)

\* -------------------------------------------------- DELETE /api/users/[id]
\* What the foreign keys Task.teamId and User.teamId do when a referenced
\* Team row is deleted, and Task.assignedTo and Team.leadId when a
\* referenced User row is deleted: refuse the delete, or set the references
\* to null.
ReferentialActions == {"Restrict", "SetNull"}

\* the rows that reference the User userId
UserReferenced(userId) ==
  \/ \E t \in DOMAIN tasks : tasks[t].assignedTo = userId
  \/ \E t \in DOMAIN teams : teams[t].leadId = userId

UserDelete(tok, userId) ==
  /\ UNCHANGED <<pending, tokens, counters, history, reqs>>
  /\ IF ~IsAdmin(tok)
     THEN /\ resp' = Response("users.delete", userId, Empty, 500, Empty)
          /\ UNCHANGED <<users, teams, tasks>>
     ELSE IF userId \notin DOMAIN users
     THEN /\ resp' = Response("users.delete", userId, Empty, 404,
                              "User not found")
          /\ UNCHANGED <<users, teams, tasks>>
     ELSE IF ~UserReferenced(userId)
     THEN /\ users' = Drop(users, userId)
          /\ resp' = Response("users.delete", userId, Empty, 200, Empty)
          /\ UNCHANGED <<teams, tasks>>
     ELSE \E action \in ReferentialActions :
            IF action = "Restrict"
            THEN /\ resp' = Response("users.delete", userId, Empty, 500,
                                     "Failed to delete user")
                 /\ UNCHANGED <<users, teams, tasks>>
            ELSE /\ users' = Drop(users, userId)
                 /\ tasks' = [t \in DOMAIN tasks |->
                                [tasks[t] EXCEPT
                                   !.assignedTo = IF @ = userId THEN Null
                                                  ELSE @]]
                 /\ teams' = [t \in DOMAIN teams |->
                                [teams[t] EXCEPT
                                   !.leadId = IF @ = userId THEN Null
                                              ELSE @]]
                 /\ resp' = Response("users.delete", userId, Empty, 200,
                                     Empty)

\* --------------------------------------------------- GET /api/users/approve
PendingList(tok) ==
  /\ UNCHANGED <<store, tokens, counters, history, reqs>>
  /\ IF ~IsAdmin(tok)
     THEN resp' = Response("pending.list", 0, Empty, 500, Empty)
     ELSE resp' = Response("pending.list", 0, Empty, 200, Empty)

MeBodies ==
  {[name |-> n, email |-> e, role |-> r, teamId |-> Null] :
     n \in {Empty}, e \in Emails \cup {Empty}, r \in {Empty, "admin"}}

RegNames == Names \cup {Empty}
RegPasswords == Passwords \cup {Empty}
PendingIds == 0..MaxPending
ApproveFlags == {"true", "false", "undefined"}

NextReg ==
  \/ \E n \in RegNames, e \in Emails, p \in RegPasswords : Register(n, e, p)
  \/ \E e \in Emails, p \in Passwords : Login(e, p)
  \/ \E tok \in Callers, id \in PendingIds, a \in ApproveFlags :
       ProcessRegistration(tok, id, a)
  \/ \E tok \in Callers, body \in MeBodies : UpdateMe(tok, body)

SpecReg == InitReg /\ [][NextReg]_vars

\* ======================================================= teams and tasks
\* The deployment the task and team requests run against: an admin, a
\* manager and two employees, each logged in, and two teams.
SeedStaff ==
  (1 :> [name |-> "Root", email |-> "root@x", password |-> hashPassword("pw0"),
         role |-> "admin", teamId |-> Null]) @@
  (2 :> [name |-> "Mia", email |-> "mia@x", password |-> hashPassword("pw0"),
         role |-> "manager", teamId |-> Null]) @@
  (3 :> [name |-> "Eve", email |-> "eve@x", password |-> hashPassword("pw0"),
         role |-> "employee", teamId |-> 1]) @@
  (4 :> [name |-> "Bob", email |-> "bob@x", password |-> hashPassword("pw0"),
         role |-> "employee", teamId |-> 2])

SeedTeams ==
  (1 :> [name |-> "Engineering", leadId |-> 2]) @@
  (2 :> [name |-> "Sales", leadId |-> Null])

Init ==
  /\ users = SeedStaff
  /\ pending = <<>>
  /\ teams = SeedTeams
  /\ tasks = <<>>
  /\ tokens = {generateToken(u, SeedStaff[u].role) : u \in DOMAIN SeedStaff}
  /\ resp = Response("none", 0, Empty, 0, Empty)
  /\ nextUser = 5
  /\ nextPending = 1
  /\ nextTeam = 3
  /\ nextTask = 1
  /\ approvedFrom = {}
  /\ rejected = {}
  /\ clearedTeams = {}
  /\ registered = <<>>
  /\ reqs = <<>>

ManagerOrAdmin_StoredRole(tok) ==
  /\ TokenValid(tok)
  /\ tok.id \in DOMAIN users
  /\ users[tok.id].role \in {"admin", "manager"}

\* checkManagerOrAdmin: the token verifies and its role is admin or manager
ManagerOrAdmin(tok) == TokenValid(tok) /\ tok.role \in {"admin", "manager"}

\* User.teamId: the team a User is a member of
MembersOf(teamId) == {u \in DOMAIN users : users[u].teamId = teamId}
TasksOf(teamId) == {t \in DOMAIN tasks : tasks[t].teamId = teamId}

\* user.findFirst({where: {id, teams: {some: {id: teamId}}}})
MemberOfTeam(userId, teamId) ==
  userId \in DOMAIN users /\ users[userId].teamId = teamId

\* -------------------------------------------------------- GET /api/tasks
\* The query string: a filter is Empty / Null when it is not given.
Queries ==
  [status : {Empty, "completed"}, priority : {Empty, "high"},
   teamId : {Null, 1}, assignedTo : {Null, 3, 4}]

ListWhere_FilterWins(tok, q) ==
  IF tok.role = "employee" /\ q.assignedTo = Null
  THEN [q EXCEPT !.assignedTo = tok.id]
  ELSE q

\* the where object given to task.findMany
ListWhere(tok, q) ==
  IF tok.role = "employee" THEN [q EXCEPT !.assignedTo = tok.id] ELSE q

\* task.findMany({where}): the rows that match every filter that is set
FindTasks(where) ==
  {t \in DOMAIN tasks :
     /\ where.status # Empty => tasks[t].status = where.status
     /\ where.priority # Empty => tasks[t].priority = where.priority
     /\ where.teamId # Null => tasks[t].teamId = where.teamId
     /\ where.assignedTo # Null => tasks[t].assignedTo = where.assignedTo}

\* The handler.  resp notes the caller (id, role), the assignedTo filter
\* asked for and the rows returned (data).
TaskList(tok, q) ==
  /\ UNCHANGED <<store, tokens, counters, history, reqs>>
  /\ IF ~TokenValid(tok)
     THEN resp' = Response("task.list", 0, Empty, 401,
                           "Authentication required")
     ELSE resp' = [op |-> "task.list", id |-> tok.id, email |-> Empty,
                   status |-> 200, error |-> Empty, role |-> tok.role,
                   asked |-> q.assignedTo,
                   data |-> FindTasks(ListWhere(tok, q))]

\* ------------------------------------------------------- POST /api/tasks
\* body: [title, description, assignedTo, teamId, dueDate, priority]
TaskCreate(tok, body) ==
  /\ UNCHANGED <<users, pending, teams, tokens, nextUser, nextPending,
                 nextTeam, history, reqs>>
  /\ IF ~TokenValid(tok)
     THEN /\ resp' = Response("task.create", 0, Empty, 401,
                              "Authentication required")
          /\ UNCHANGED <<tasks, nextTask>>
     ELSE IF tok.role = "employee"
     THEN /\ resp' = Response("task.create", 0, Empty, 403,
                              "Only managers and admins can create tasks")
          /\ UNCHANGED <<tasks, nextTask>>
     ELSE IF body.title = Empty \/ body.description = Empty
             \/ body.teamId = Null
     THEN /\ resp' = Response("task.create", 0, Empty, 400,
                              "Title, description, and teamId are required")
          /\ UNCHANGED <<tasks, nextTask>>
     ELSE IF body.teamId \notin DOMAIN teams
     THEN /\ resp' = Response("task.create", 0, Empty, 400,
                              "Team not found")
          /\ UNCHANGED <<tasks, nextTask>>
     ELSE IF body.assignedTo # Null
             /\ ~MemberOfTeam(body.assignedTo, body.teamId)
     THEN /\ resp' = Response("task.create", 0, Empty, 400,
                 "Assigned user not found or not part of the selected team")
          /\ UNCHANGED <<tasks, nextTask>>
     ELSE /\ nextTask <= MaxTasks
          /\ tasks' = Put(tasks, nextTask,
               [title |-> body.title, description |-> body.description,
                assignedBy |-> tok.id, assignedTo |-> body.assignedTo,
                teamId |-> body.teamId, dueDate |-> body.dueDate,
                priority |-> IF body.priority # Empty THEN body.priority
                             ELSE "medium",
                status |-> "pending"])
          /\ nextTask' = nextTask + 1
          /\ resp' = Response("task.create", nextTask, Empty, 200, Empty)

\* --------------------------------------------------- PUT /api/tasks/[id]
\* body: [title, description, status, priority, dueDate, assignedTo, teamId];
\* Empty / Null is a field not submitted; dueDate is Undefined when not
\* submitted, Null for null, else a date.
Undefined == -1

\* the row after prisma.task.update with the updateData the handler built
SingleUpdateData(tok, t, body) ==
  IF tok.role = "employee"
  THEN [t EXCEPT !.status = IF body.status # Empty THEN body.status ELSE @]
  ELSE [title |-> IF body.title # Empty THEN body.title ELSE t.title,
        description |-> IF body.description # Empty THEN body.description
                        ELSE t.description,
        status |-> IF body.status # Empty THEN body.status ELSE t.status,
        priority |-> IF body.priority # Empty THEN body.priority
                     ELSE t.priority,
        dueDate |-> IF body.dueDate # Undefined THEN body.dueDate
                    ELSE t.dueDate,
        assignedBy |-> t.assignedBy,
        assignedTo |-> IF body.assignedTo # Null THEN body.assignedTo
                       ELSE t.assignedTo,
        teamId |-> IF body.teamId # Null THEN body.teamId ELSE t.teamId]

NotOwnTask_Never(tok, taskId) == FALSE

\* user.role === 'employee' && task.assignedTo !== user.id
NotOwnTask(tok, taskId) ==
  tok.role = "employee" /\ tasks[taskId].assignedTo # tok.id

TaskUpdate(tok, taskId, body) ==
  /\ UNCHANGED <<users, pending, teams, tokens, counters, history, reqs>>
  /\ IF ~TokenValid(tok)
     THEN /\ resp' = Response("task.update", taskId, Empty, 401,
                              "Authentication required")
          /\ UNCHANGED tasks
     ELSE IF taskId \notin DOMAIN tasks
     THEN /\ resp' = Response("task.update", taskId, Empty, 404,
                              "Task not found")
          /\ UNCHANGED tasks
     ELSE IF NotOwnTask(tok, taskId)
     THEN /\ resp' = Response("task.update", taskId, Empty, 403,
                              "You can only update your own tasks")
          /\ UNCHANGED tasks
     ELSE IF /\ tok.role # "employee"
             /\ body.assignedTo # Null
             /\ ~MemberOfTeam(body.assignedTo,
                              IF body.teamId # Null THEN body.teamId
                              ELSE tasks[taskId].teamId)
     THEN /\ resp' = Response("task.update", taskId, Empty, 400,
                         "Assigned user not found or not part of the team")
          /\ UNCHANGED tasks
     ELSE IF /\ tok.role # "employee"
             /\ body.teamId # Null
             /\ body.teamId \notin DOMAIN teams
     THEN /\ resp' = Response("task.update", taskId, Empty, 400,
                              "Team not found")
          /\ UNCHANGED tasks
     ELSE /\ tasks' = [tasks EXCEPT ![taskId] = SingleUpdateData(tok, @, body)]
          /\ resp' = Response("task.update", taskId, Empty, 200, Empty)

\* -------------------------------------------------------- PUT /api/tasks
\* taskIds is an array of ids; updates: [status, priority, dueDate, title,
\* description, assignedTo].
Range(seq) == {seq[i] : i \in DOMAIN seq}

\* the row after prisma.task.updateMany with allowedUpdates
BatchUpdateData(tok, t, updates) ==
  [title |-> IF tok.role # "employee" /\ updates.title # Empty
             THEN updates.title ELSE t.title,
   description |-> IF tok.role # "employee" /\ updates.description # Empty
                   THEN updates.description ELSE t.description,
   status |-> IF updates.status # Empty THEN updates.status ELSE t.status,
   priority |-> IF updates.priority # Empty THEN updates.priority
                ELSE t.priority,
   dueDate |-> IF updates.dueDate \notin {Undefined, Null}
               THEN updates.dueDate ELSE t.dueDate,
   assignedBy |-> t.assignedBy,
   assignedTo |-> IF tok.role # "employee" /\ updates.assignedTo # Null
                  THEN updates.assignedTo ELSE t.assignedTo,
   teamId |-> t.teamId]

TaskBatchUpdate(tok, taskIds, updates) ==
  /\ UNCHANGED <<users, pending, teams, tokens, counters, history, reqs>>
  /\ IF ~TokenValid(tok)
     THEN /\ resp' = Response("task.batchUpdate", 0, Empty, 401,
                              "Authentication required")
          /\ UNCHANGED tasks
     ELSE IF Len(taskIds) = 0
     THEN /\ resp' = Response("task.batchUpdate", 0, Empty, 400,
                              "Task IDs array is required")
          /\ UNCHANGED tasks
     ELSE LET found == Range(taskIds) \cap DOMAIN tasks IN
          IF \E t \in found : NotOwnTask(tok, t)
          THEN /\ resp' = Response("task.batchUpdate", 0, Empty, 403,
                                   "You can only update your own tasks")
               /\ UNCHANGED tasks
          ELSE IF /\ found # {}
                  /\ tok.role # "employee"
                  /\ updates.assignedTo # Null
                  /\ updates.assignedTo \notin DOMAIN users
          THEN \* updateMany violates the foreign key of Task.assignedTo
               /\ resp' = Response("task.batchUpdate", 0, Empty, 500,
                                   "Failed to update tasks")
               /\ UNCHANGED tasks
          ELSE /\ tasks' = [t \in DOMAIN tasks |->
                              IF t \in found
                              THEN BatchUpdateData(tok, tasks[t], updates)
                              ELSE tasks[t]]
               /\ resp' = Response("task.batchUpdate", 0, Empty, 200,
                                   Empty)

\* ------------------------------------------------ DELETE /api/tasks/[id]
TaskDelete(tok, taskId) ==
  /\ UNCHANGED <<users, pending, teams, tokens, counters, history, reqs>>
  /\ IF ~TokenValid(tok)
     THEN /\ resp' = Response("task.delete", taskId, Empty, 401,
                              "Authentication required")
          /\ UNCHANGED tasks
     ELSE IF tok.role = "employee"
     THEN /\ resp' = Response("task.delete", taskId, Empty, 403,
                              "Only managers and admins can delete tasks")
          /\ UNCHANGED tasks
     ELSE IF taskId \notin DOMAIN tasks
     THEN /\ resp' = Response("task.delete", taskId, Empty, 404,
                              "Task not found")
          /\ UNCHANGED tasks
     ELSE /\ tasks' = Drop(tasks, taskId)
          /\ resp' = Response("task.delete", taskId, Empty, 200, Empty)

\* ------------------------------------------------ DELETE /api/teams/[id]
HasActiveTasks_Never(teamId) == FALSE

\* existingTeam.tasks.length > 0
HasActiveTasks(teamId) == TasksOf(teamId) # {}

\* prisma.user.updateMany({where: {teamId}, data: {teamId: null}})
ClearMembers(teamId) ==
  [u \in DOMAIN users |->
     IF users[u].teamId = teamId THEN [users[u] EXCEPT !.teamId = Null]
     ELSE users[u]]

TeamDelete(tok, teamId) ==
  /\ UNCHANGED <<pending, tasks, tokens, counters, approvedFrom, rejected,
                 registered, reqs>>
  /\ IF ~ManagerOrAdmin(tok)
     THEN /\ resp' = Response("team.delete", teamId, Empty, 403,
                              IF TokenValid(tok)
                              THEN "Admin or Manager access required"
                              ELSE "Authentication failed")
          /\ UNCHANGED <<users, teams, clearedTeams>>
     ELSE IF teamId \notin DOMAIN teams
     THEN /\ resp' = Response("team.delete", teamId, Empty, 404,
                              "Team not found")
          /\ UNCHANGED <<users, teams, clearedTeams>>
     ELSE IF HasActiveTasks(teamId)
     THEN /\ resp' = Response("team.delete", teamId, Empty, 400,
                              "Cannot delete team with active tasks")
          /\ UNCHANGED <<users, teams, clearedTeams>>
     ELSE /\ users' = ClearMembers(teamId)
          /\ clearedTeams' = IF MembersOf(teamId) # {}
                             THEN clearedTeams \cup {teamId}
                             ELSE clearedTeams
          /\ teams' = Drop(teams, teamId)
          /\ resp' = Response("team.delete", teamId, Empty, 200, Empty)

\* ------------------------------------------- POST /api/teams/[id]/members
MembersIn(us, teamId) == {u \in DOMAIN us : us[u].teamId = teamId}

AllUsersExist_Always(userIds) == TRUE

\* users.length === userIds.length, users being the rows whose id is in
\* userIds
AllUsersExist(userIds) ==
  Cardinality(Range(userIds) \cap DOMAIN users) = Len(userIds)

ConnectMembers_Nothing(teamId, userIds) == users

\* members: {connect: userIds} / user.updateMany({where: {id: {in: userIds}},
\* data: {teamId}})
ConnectMembers(teamId, userIds) ==
  [u \in DOMAIN users |->
     IF u \in Range(userIds) THEN [users[u] EXCEPT !.teamId = teamId]
     ELSE users[u]]

\* The handler; userIds is an array of ids.  reqs is left to the caller.
AddMembersCall(tok, teamId, userIds) ==
  /\ UNCHANGED <<pending, teams, tasks, tokens, counters, history>>
  /\ IF ~ManagerOrAdmin(tok)
     THEN /\ resp' = Response("team.addMembers", teamId, Empty, 403,
                              IF TokenValid(tok)
                              THEN "Admin or Manager access required"
                              ELSE "Authentication failed")
          /\ UNCHANGED users
     ELSE IF Len(userIds) = 0
     THEN /\ resp' = Response("team.addMembers", teamId, Empty, 400,
                              "User IDs array is required")
          /\ UNCHANGED users
     ELSE IF teamId \notin DOMAIN teams
     THEN /\ resp' = Response("team.addMembers", teamId, Empty, 404,
                              "Team not found")
          /\ UNCHANGED users
     ELSE IF ~AllUsersExist(userIds)
     THEN /\ resp' = Response("team.addMembers", teamId, Empty, 400,
                              "One or more users not found")
          /\ UNCHANGED users
     ELSE /\ users' = ConnectMembers(teamId, userIds)
          /\ resp' = Response("team.addMembers", teamId, Empty, 200,
                              Empty)

AddMembers(tok, teamId, userIds) ==
  AddMembersCall(tok, teamId, userIds) /\ UNCHANGED reqs

\* ----------------------------------------- DELETE /api/teams/[id]/members
DisconnectMembers_Any(teamId, userIds) ==
  [u \in DOMAIN users |->
     IF u \in Range(userIds) THEN [users[u] EXCEPT !.teamId = Null]
     ELSE users[u]]

\* members: {disconnect: userIds} / user.updateMany({where: {id: {in:
\* userIds}, teamId}, data: {teamId: null}})
DisconnectMembers(teamId, userIds) ==
  [u \in DOMAIN users |->
     IF u \in Range(userIds) /\ users[u].teamId = teamId
     THEN [users[u] EXCEPT !.teamId = Null]
     ELSE users[u]]

RemoveMembersCall(tok, teamId, userIds) ==
  /\ UNCHANGED <<pending, teams, tasks, tokens, counters, history>>
  /\ IF ~ManagerOrAdmin(tok)
     THEN /\ resp' = Response("team.removeMembers", teamId, Empty, 403,
                              IF TokenValid(tok)
                              THEN "Admin or Manager access required"
                              ELSE "Authentication failed")
          /\ UNCHANGED users
     ELSE IF Len(userIds) = 0
     THEN /\ resp' = Response("team.removeMembers", teamId, Empty, 400,
                              "User IDs array is required")
          /\ UNCHANGED users
     ELSE IF teamId \notin DOMAIN teams
     THEN /\ resp' = Response("team.removeMembers", teamId, Empty, 404,
                              "Team not found")
          /\ UNCHANGED users
     ELSE /\ users' = DisconnectMembers(teamId, userIds)
          /\ resp' = Response("team.removeMembers", teamId, Empty, 200,
                              Empty)

RemoveMembers(tok, teamId, userIds) ==
  RemoveMembersCall(tok, teamId, userIds) /\ UNCHANGED reqs

\* -------------------------------------------------------- GET /api/teams
\* resp notes the caller as id.
TeamsList(tok) ==
  /\ UNCHANGED <<store, tokens, counters, history, reqs>>
  /\ IF ~ManagerOrAdmin(tok)
     THEN resp' = Response("team.list", tok.id, Empty, 403,
                           IF TokenValid(tok)
                           THEN "Admin or Manager access required"
                           ELSE "Authentication failed")
     ELSE resp' = Response("team.list", tok.id, Empty, 200, Empty)

\* ------------------------------------------------------- POST /api/teams
\* body: [name, leadId, memberIds]; an Empty name or an Undefined leadId is
\* a field not submitted, memberIds is an array of ids, possibly empty.
TeamsByName(name) == {t \in DOMAIN teams : teams[t].name = name}

\* The handler, its store calls one after the other with no request in
\* between: team.create, then team.update with members: {connect}, which
\* fails when an id of memberIds is of no User.
TeamCreate(tok, body) ==
  /\ UNCHANGED <<pending, tasks, tokens, nextUser, nextPending, nextTask,
                 history, reqs>>
  /\ IF ~ManagerOrAdmin(tok)
     THEN /\ resp' = Response("team.create", 0, Empty, 403,
                              IF TokenValid(tok)
                              THEN "Admin or Manager access required"
                              ELSE "Authentication failed")
          /\ UNCHANGED <<users, teams, nextTeam>>
     ELSE IF body.name = Empty
     THEN /\ resp' = Response("team.create", 0, Empty, 400,
                              "Team name is required")
          /\ UNCHANGED <<users, teams, nextTeam>>
     ELSE IF TeamsByName(body.name) # {}
     THEN /\ resp' = Response("team.create", 0, Empty, 400,
                              "Team name already exists")
          /\ UNCHANGED <<users, teams, nextTeam>>
     ELSE IF body.leadId \notin {Undefined, Null}
             /\ body.leadId \notin DOMAIN users
     THEN /\ resp' = Response("team.create", 0, Empty, 400,
                              "Team lead not found")
          /\ UNCHANGED <<users, teams, nextTeam>>
     ELSE /\ nextTeam <= MaxTeams
          /\ teams' = Put(teams, nextTeam,
                          [name |-> body.name,
                           leadId |-> IF body.leadId = Undefined THEN Null
                                      ELSE body.leadId])
          /\ nextTeam' = nextTeam + 1
          /\ IF Len(body.memberIds) = 0
             THEN /\ resp' = Response("team.create", nextTeam, Empty, 200,
                                      Empty)
                  /\ UNCHANGED users
             ELSE IF ~(Range(body.memberIds) \subseteq DOMAIN users)
             THEN \* connect finds no record for an id
                  /\ resp' = Response("team.create", nextTeam, Empty, 500,
                                      "Failed to create team")
                  /\ UNCHANGED users
             ELSE /\ users' = ConnectMembers(nextTeam, body.memberIds)
                  /\ resp' = Response("team.create", nextTeam, Empty, 200,
                                      Empty)

\* ------------------------------------------------------ request inputs
TeamIds == {1, 2}
TaskIds == 1..MaxTasks
Staff == {3, 4}

CreateBodies ==
  {[title |-> ti, description |-> "D1", assignedTo |-> a, teamId |-> tm,
    dueDate |-> Null, priority |-> Empty] :
     ti \in {"T1", Empty}, a \in Staff \cup {Null}, tm \in TeamIds}

NoFields ==
  [title |-> Empty, description |-> Empty, status |-> Empty,
   priority |-> Empty, dueDate |-> Undefined, assignedTo |-> Null,
   teamId |-> Null]

UpdateBodies ==
  {[NoFields EXCEPT !.status = "completed"],
   [title |-> "T2", description |-> "D2", status |-> "completed",
    priority |-> "high", dueDate |-> 1, assignedTo |-> 4, teamId |-> 2]}
  \cup {[NoFields EXCEPT !.assignedTo = a] : a \in Staff}
  \cup {[NoFields EXCEPT !.teamId = tm] : tm \in TeamIds}

TaskIdLists == {<<>>, <<1>>, <<1, 2>>}
UserIdLists == {<<3>>, <<4>>, <<3, 4>>, <<3, 9>>}

Next ==
  \/ \E tok \in Callers, body \in CreateBodies : TaskCreate(tok, body)
  \/ \E tok \in Callers, id \in TaskIds, body \in UpdateBodies :
       TaskUpdate(tok, id, body)
  \/ \E tok \in Callers, ids \in TaskIdLists, body \in UpdateBodies :
       TaskBatchUpdate(tok, ids, body)
  \/ \E tok \in Callers, id \in TaskIds : TaskDelete(tok, id)
  \/ \E tok \in Callers, id \in TeamIds : TeamDelete(tok, id)

Spec == Init /\ [][Next]_vars

\* Task listings among the requests that create, change and delete tasks
NextList ==
  \/ \E tok \in Callers, body \in CreateBodies : TaskCreate(tok, body)
  \/ \E tok \in Callers, id \in TaskIds, body \in UpdateBodies :
       TaskUpdate(tok, id, body)
  \/ \E tok \in Callers, id \in TaskIds : TaskDelete(tok, id)
  \/ \E tok \in Callers, q \in Queries : TaskList(tok, q)

SpecList == Init /\ [][NextList]_vars

\* --------------------------------------------------- roles and task rights
\* An admin changes roles, users log in again, and tasks are created and
\* deleted.
StaffEmails == {SeedStaff[u].email : u \in Staff}
RoleBodies ==
  {[name |-> Empty, email |-> Empty, role |-> r] : r \in {"intern", "employee"}}

NextRoles ==
  \/ \E tok \in Callers, id \in Staff, body \in RoleBodies :
       AdminUpdateUser(tok, id, body)
  \/ \E e \in StaffEmails : Login(e, "pw0")
  \/ \E tok \in Callers, body \in CreateBodies : TaskCreate(tok, body)
  \/ \E tok \in Callers, id \in TaskIds : TaskDelete(tok, id)

SpecRoles == Init /\ [][NextRoles]_vars

\* ------------------------------------------------------- profile updates
\* Users change their own profile and an admin changes the profile of
\* others, one request after another.
ProfileBodies ==
  {[name |-> n, email |-> e, role |-> x[1], teamId |-> x[2]] :
     n \in {Empty, "Zed"}, e \in {Empty, "eve@x", "new@x"},
     x \in {<<Empty, Null>>, <<"admin", 2>>}}
AdminBodies ==
  [name : {Empty}, email : {"new@x"}, role : {Empty, "manager"}]

NextProfile ==
  \/ \E tok \in Callers, body \in ProfileBodies : UpdateMe(tok, body)
  \/ \E tok \in Callers, id \in Staff, body \in AdminBodies :
       AdminUpdateUser(tok, id, body)

SpecProfile == Init /\ [][NextProfile]_vars

\* ------------------------------------------------- the admin's endpoints
\* The user endpoints that call isAdmin, called by every kind of caller.
PutBodies ==
  [id : {Null, 3, 9}, name : {Empty}, email : {Empty, "new@x"},
   role : {Empty, "manager"}]

NextAdmin ==
  \/ \E tok \in Callers : UsersList(tok)
  \/ \E tok \in Callers, body \in PutBodies : UsersUpdate(tok, body)
  \/ \E tok \in Callers, id \in Staff \cup {9} : UserGet(tok, id)
  \/ \E tok \in Callers, id \in Staff, body \in AdminBodies :
       AdminUpdateUser(tok, id, body)
  \/ \E tok \in Callers, id \in Staff \cup {9} : UserDelete(tok, id)
  \/ \E tok \in Callers : PendingList(tok)

SpecAdmin == Init /\ [][NextAdmin]_vars

\* --------------------------------------------- requests of every family
\* Task, team, team-member, user and approval endpoints, called with and
\* without a token that verifies.
GuardTaskBodies == {b \in CreateBodies : b.title # Empty /\ b.assignedTo = 3}
GuardTeamBodies ==
  [name : {"Ops"}, leadId : {Undefined}, memberIds : {<<>>, <<4>>}]
GuardMeBodies ==
  {[name |-> "Zed", email |-> Empty, role |-> Empty, teamId |-> Null]}

\* the callers: the admin, and one without a token that verifies
GuardCallers == {NoToken} \cup {tok \in tokens : tok.role = "admin"}

NextGuards ==
  \/ \E tok \in GuardCallers, body \in GuardTaskBodies : TaskCreate(tok, body)
  \/ \E tok \in GuardCallers, id \in TaskIds : TaskDelete(tok, id)
  \/ \E tok \in GuardCallers : TeamsList(tok)
  \/ \E tok \in GuardCallers, body \in GuardTeamBodies : TeamCreate(tok, body)
  \/ \E tok \in GuardCallers, id \in TeamIds : TeamDelete(tok, id)
  \/ \E tok \in GuardCallers : AddMembers(tok, 2, <<3>>)
  \/ \E tok \in GuardCallers : RemoveMembers(tok, 2, <<3>>)
  \/ \E tok \in GuardCallers : UsersList(tok)
  \/ \E tok \in GuardCallers : UserDelete(tok, 4)
  \/ \E tok \in GuardCallers : MeGet(tok)
  \/ \E tok \in GuardCallers, body \in GuardMeBodies : UpdateMe(tok, body)
  \/ \E tok \in GuardCallers : PendingList(tok)
  \/ Register("Ann", "a@x", "pw1")
  \/ \E tok \in GuardCallers, a \in {"true", "false"} :
       ProcessRegistration(tok, 1, a)

SpecGuards == Init /\ [][NextGuards]_vars

\* ------------------------------------------------- teams made and deleted
\* Teams are created, with and without members, filled and deleted, one
\* request after another.
TeamCreateBodies ==
  [name : {Empty, "Ops", "Sales"}, leadId : {Undefined, 9},
   memberIds : {<<>>, <<3>>, <<3, 9>>}]

NextTeams ==
  \/ \E tok \in Callers, body \in TeamCreateBodies : TeamCreate(tok, body)
  \/ \E tok \in Callers, id \in 1..MaxTeams : TeamDelete(tok, id)
  \/ \E tok \in Callers, id \in 1..MaxTeams, ids \in UserIdLists :
       AddMembers(tok, id, ids)

SpecTeams == Init /\ [][NextTeams]_vars

\* ---------------------------------------------------------------- sessions
\* Users log in and out while an admin changes their role or deletes them,
\* and the tokens issued are used on guarded endpoints.
SessionUsers == {2, 3}
SessionEmails == {SeedStaff[u].email : u \in SessionUsers}
SessionBodies ==
  {[name |-> Empty, email |-> Empty, role |-> r] :
     r \in {"employee", "manager"}}

NextSessions ==
  \/ \E e \in SessionEmails : Login(e, "pw0")
  \/ \E tok \in Callers : Logout(tok)
  \/ \E tok \in Callers, id \in SessionUsers, body \in SessionBodies :
       AdminUpdateUser(tok, id, body)
  \/ \E tok \in Callers, id \in SessionUsers : UserDelete(tok, id)
  \/ \E tok \in Callers : MeGet(tok)
  \/ \E tok \in Callers : TeamsList(tok)
  \/ \E tok \in Callers : UsersList(tok)

SpecSessions == Init /\ [][NextSessions]_vars

\* ------------------------------------------------------ who changes roles
\* From the deployment with the admin alone: people register, are approved
\* and log in, send their own role in profile updates, call the admin's
\* update endpoints, and create teams and tasks.
RoleGrabBodies ==
  {[name |-> "Zed", email |-> Empty, role |-> "admin", teamId |-> Null]}
RolePutBodies ==
  [id : {2}, name : {Empty}, email : {Empty}, role : {"manager"}]
RoleTeamBodies == [name : {"Ops"}, leadId : {Undefined}, memberIds : {<<2>>}]
RoleTaskBodies == {b \in CreateBodies : b.title # Empty /\ b.teamId = 1}

NextRoleOwners ==
  \/ \E e \in Emails : Register("Ann", e, "pw1")
  \/ \E tok \in Callers, id \in 1..MaxPending :
       ProcessRegistration(tok, id, "true")
  \/ \E e \in Emails : Login(e, "pw1")
  \/ \E tok \in Callers, body \in RoleGrabBodies : UpdateMe(tok, body)
  \/ \E tok \in Callers, body \in SessionBodies :
       AdminUpdateUser(tok, 2, body)
  \/ \E tok \in Callers, body \in RolePutBodies : UsersUpdate(tok, body)
  \/ \E tok \in Callers, body \in RoleTeamBodies : TeamCreate(tok, body)
  \/ \E tok \in Callers, body \in RoleTaskBodies : TaskCreate(tok, body)

SpecRoleOwners == InitReg /\ [][NextRoleOwners]_vars

\* ------------------------------------------------- team membership calls
\* Requests to the members route handled one after another.  reqs notes the
\* last call: its team, its ids, and the members the team had before it.
MemberTeamIds == TeamIds \cup {7}
MemberIdLists == UserIdLists \cup {<<>>, <<2, 3>>, <<3, 3>>}
NoAdd == [op |-> "none", id |-> 0, ids |-> {}, before |-> {}]

MembersAdd(tok, teamId, userIds) ==
  /\ AddMembersCall(tok, teamId, userIds)
  /\ reqs' = [op |-> "team.addMembers", id |-> teamId,
              ids |-> Range(userIds), before |-> MembersOf(teamId)]

MembersRemove(tok, teamId, userIds) ==
  /\ RemoveMembersCall(tok, teamId, userIds)
  /\ reqs' = [op |-> "team.removeMembers", id |-> teamId,
              ids |-> Range(userIds), before |-> MembersOf(teamId)]

InitMembers ==
  /\ users = SeedStaff
  /\ pending = <<>>
  /\ teams = SeedTeams
  /\ tasks = <<>>
  /\ tokens = {generateToken(u, SeedStaff[u].role) : u \in {2, 3}}
  /\ resp = Response("none", 0, Empty, 0, Empty)
  /\ nextUser = 5
  /\ nextPending = 1
  /\ nextTeam = 3
  /\ nextTask = 1
  /\ approvedFrom = {}
  /\ rejected = {}
  /\ clearedTeams = {}
  /\ registered = <<>>
  /\ reqs = NoAdd

NextMembers ==
  \/ \E tok \in Callers, id \in MemberTeamIds, ids \in MemberIdLists :
       MembersAdd(tok, id, ids)
  \/ \E tok \in Callers, id \in MemberTeamIds, ids \in MemberIdLists :
       MembersRemove(tok, id, ids)

SpecMembers == InitMembers /\ [][NextMembers]_vars

\* ==================================================== concurrent requests
\* A handler runs from one await of the store to the next; between two of
\* its store calls the calls of other requests may run.  reqs holds the
\* requests in flight: where each stands (pc) and what it has read so far.
Slots == 1..MaxInFlight
NoSnap == [name |-> Empty, email |-> Empty, password |-> <<>>]
Idle == [pc |-> "idle", op |-> "none", id |-> 0, flag |-> FALSE,
         snap |-> NoSnap]

\* ---------------------------------- DELETE /api/teams/[id], store call by
\* store call
\* findUnique with members and tasks, and the checks of what it returned
TeamDeleteBegin(r, tok, teamId) ==
  /\ reqs[r].pc = "idle"
  /\ UNCHANGED <<store, tokens, counters, history>>
  /\ IF ~ManagerOrAdmin(tok)
     THEN /\ resp' = Response("team.delete", teamId, Empty, 403,
                              IF TokenValid(tok)
                              THEN "Admin or Manager access required"
                              ELSE "Authentication failed")
          /\ UNCHANGED reqs
     ELSE IF teamId \notin DOMAIN teams
     THEN /\ resp' = Response("team.delete", teamId, Empty, 404,
                              "Team not found")
          /\ UNCHANGED reqs
     ELSE IF HasActiveTasks(teamId)
     THEN /\ resp' = Response("team.delete", teamId, Empty, 400,
                              "Cannot delete team with active tasks")
          /\ UNCHANGED reqs
     ELSE /\ reqs' = [reqs EXCEPT ![r] =
                        [pc |-> IF MembersOf(teamId) # {} THEN "clear"
                                ELSE "delete",
                         op |-> "team.delete", id |-> teamId,
                         flag |-> MembersOf(teamId) # {}, snap |-> NoSnap]]
          /\ UNCHANGED resp

\* user.updateMany({where: {teamId}, data: {teamId: null}})
TeamDeleteClear(r) ==
  /\ reqs[r].op = "team.delete" /\ reqs[r].pc = "clear"
  /\ users' = ClearMembers(reqs[r].id)
  /\ clearedTeams' = clearedTeams \cup {reqs[r].id}
  /\ reqs' = [reqs EXCEPT ![r].pc = "delete"]
  /\ UNCHANGED <<pending, teams, tasks, tokens, resp, counters,
                 approvedFrom, rejected, registered>>

\* team.delete({where: {id}})
TeamDeleteRow(r) ==
  /\ reqs[r].op = "team.delete" /\ reqs[r].pc = "delete"
  /\ reqs' = [reqs EXCEPT ![r] = Idle]
  /\ UNCHANGED <<pending, tokens, counters, history>>
  /\ LET id == reqs[r].id IN
     IF id \notin DOMAIN teams
     THEN \* no record to delete
          /\ resp' = Response("team.delete", id, Empty, 500,
                              "Failed to delete team")
          /\ UNCHANGED <<users, teams, tasks>>
     ELSE IF TasksOf(id) = {} /\ MembersOf(id) = {}
     THEN /\ teams' = Drop(teams, id)
          /\ resp' = Response("team.delete", id, Empty, 200, Empty)
          /\ UNCHANGED <<users, tasks>>
     ELSE \E action \in ReferentialActions :
            IF action = "Restrict"
            THEN /\ resp' = Response("team.delete", id, Empty, 500,
                                     "Failed to delete team")
                 /\ UNCHANGED <<users, teams, tasks>>
            ELSE /\ teams' = Drop(teams, id)
                 /\ users' = ClearMembers(id)
                 /\ tasks' = [t \in DOMAIN tasks |->
                                IF tasks[t].teamId = id
                                THEN [tasks[t] EXCEPT !.teamId = Null]
                                ELSE tasks[t]]
                 /\ resp' = Response("team.delete", id, Empty, 200, Empty)

InitTeamDelete ==
  /\ users = SeedStaff
  /\ pending = <<>>
  /\ teams = SeedTeams
  /\ tasks = <<>>
  /\ tokens = {generateToken(u, SeedStaff[u].role) : u \in {2, 3}}
  /\ resp = Response("none", 0, Empty, 0, Empty)
  /\ nextUser = 5
  /\ nextPending = 1
  /\ nextTeam = 3
  /\ nextTask = 1
  /\ approvedFrom = {}
  /\ rejected = {}
  /\ clearedTeams = {}
  /\ registered = <<>>
  /\ reqs = [r \in Slots |-> Idle]

NextTeamDelete ==
  \/ \E r \in Slots, tok \in Callers, id \in TeamIds :
       TeamDeleteBegin(r, tok, id)
  \/ \E r \in Slots : TeamDeleteClear(r)
  \/ \E r \in Slots : TeamDeleteRow(r)
  \/ \E tok \in Callers, body \in CreateBodies : TaskCreate(tok, body)
  \/ \E tok \in Callers, id \in TeamIds, ids \in UserIdLists :
       AddMembers(tok, id, ids)

SpecTeamDelete == InitTeamDelete /\ [][NextTeamDelete]_vars

\* ----------------------------- POST /api/users/approve, store call by store
\* call
\* temp_User.findUnique and the checks of the request and of what it returned
ProcessBegin(r, tok, userId, approve) ==
  /\ reqs[r].pc = "idle"
  /\ UNCHANGED <<store, tokens, counters, history>>
  /\ IF userId = Null
     THEN /\ resp' = Response("process", userId, Empty, 500,
                              "Internal server error")
          /\ UNCHANGED reqs
     ELSE IF approve = "undefined"
     THEN /\ resp' = Response("process", userId, Empty, 400,
                              "Missing userId or approve flag")
          /\ UNCHANGED reqs
     ELSE IF userId \notin DOMAIN pending
     THEN /\ resp' = Response("process", userId, Empty, 404,
                              "User not found")
          /\ UNCHANGED reqs
     ELSE /\ reqs' = [reqs EXCEPT ![r] =
                        [pc |-> IF approve = "true" THEN "create"
                                ELSE "delete",
                         op |-> "process", id |-> userId,
                         flag |-> approve = "true",
                         snap |-> pending[userId]]]
          /\ UNCHANGED resp

\* user.create from the Temp_User that was read
ProcessCreate(r) ==
  /\ reqs[r].op = "process" /\ reqs[r].pc = "create"
  /\ UNCHANGED <<pending, teams, tasks, tokens, nextPending, nextTeam,
                 nextTask, rejected, clearedTeams, registered>>
  /\ IF EmailUniqueViolated(reqs[r].snap.email, Null)
     THEN \* user.create violates the unique email of User
          /\ resp' = Response("process", reqs[r].id, reqs[r].snap.email, 500,
                              "Internal server error")
          /\ reqs' = [reqs EXCEPT ![r] = Idle]
          /\ UNCHANGED <<users, nextUser, approvedFrom>>
     ELSE /\ nextUser <= MaxUsers
          /\ users' = Put(users, nextUser, ApprovedUser(reqs[r].snap))
          /\ nextUser' = nextUser + 1
          /\ approvedFrom' = approvedFrom \cup {reqs[r].id}
          /\ reqs' = [reqs EXCEPT ![r].pc = "delete"]
          /\ UNCHANGED resp

\* temp_User.delete({where: {id: userId}})
ProcessDelete(r) ==
  /\ reqs[r].op = "process" /\ reqs[r].pc = "delete"
  /\ reqs' = [reqs EXCEPT ![r] = Idle]
  /\ UNCHANGED <<users, teams, tasks, tokens, counters, approvedFrom,
                 clearedTeams, registered>>
  /\ IF reqs[r].id \notin DOMAIN pending
     THEN \* no record to delete
          /\ resp' = Response("process", reqs[r].id, reqs[r].snap.email, 500,
                              "Internal server error")
          /\ UNCHANGED <<pending, rejected>>
     ELSE /\ pending' = DeletePending(reqs[r].id)
          /\ rejected' = IF reqs[r].flag THEN rejected
                         ELSE rejected \cup {reqs[r].id}
          /\ resp' = Response("process", reqs[r].id, reqs[r].snap.email, 200,
                              Empty)

InitApprove ==
  /\ users = SeedUsers
  /\ pending = <<>>
  /\ teams = <<>>
  /\ tasks = <<>>
  /\ tokens = {generateToken(1, "admin")}
  /\ resp = Response("none", 0, Empty, 0, Empty)
  /\ nextUser = 2
  /\ nextPending = 1
  /\ nextTeam = 1
  /\ nextTask = 1
  /\ approvedFrom = {}
  /\ rejected = {}
  /\ clearedTeams = {}
  /\ registered = <<>>
  /\ reqs = [r \in Slots |-> Idle]

NextApprove ==
  \/ \E n \in Names, e \in Emails, p \in Passwords : Register(n, e, p)
  \/ \E r \in Slots, tok \in Callers, id \in PendingIds, a \in ApproveFlags :
       ProcessBegin(r, tok, id, a)
  \/ \E r \in Slots : ProcessCreate(r)
  \/ \E r \in Slots : ProcessDelete(r)

SpecApprove == InitApprove /\ [][NextApprove]_vars

\* Registrations, logins, and approvals and rejections interleaved store
\* call by store call.
NextOnboard ==
  \/ \E n \in Names, e \in Emails, p \in Passwords : Register(n, e, p)
  \/ \E e \in Emails, p \in Passwords : Login(e, p)
  \/ \E r \in Slots, tok \in Callers, id \in 1..MaxPending,
        a \in {"true", "false"} : ProcessBegin(r, tok, id, a)
  \/ \E r \in Slots : ProcessCreate(r)
  \/ \E r \in Slots : ProcessDelete(r)

SpecOnboard == InitApprove /\ [][NextOnboard]_vars

\* -------------------------------- PUT /api/users/me, store call by store
\* call
\* verifyToken, updateData and the findFirst for another User with the email
MeBegin(r, tok, body) ==
  /\ reqs[r].pc = "idle"
  /\ UNCHANGED <<store, tokens, counters, history>>
  /\ IF ~TokenValid(tok)
     THEN /\ resp' = Response("users.me.update", 0, body.email, 401,
                              "Authentication required")
          /\ UNCHANGED reqs
     ELSE IF body.name = Empty /\ body.email = Empty
     THEN /\ resp' = Response("users.me.update", tok.id, body.email, 400,
                              "No valid fields to update")
          /\ UNCHANGED reqs
     ELSE IF body.email # Empty /\ UserByEmail(body.email) \ {tok.id} # {}
     THEN /\ resp' = Response("users.me.update", tok.id, body.email, 400,
                              "Email already in use")
          /\ UNCHANGED reqs
     ELSE /\ reqs' = [reqs EXCEPT ![r] =
                        [pc |-> "write", op |-> "users.me.update",
                         id |-> tok.id, flag |-> body.email # Empty,
                         snap |-> [name |-> body.name, email |-> body.email,
                                   password |-> <<>>]]]
          /\ UNCHANGED resp

\* prisma.user.update({where: {id: tokenData.id}, data: updateData})
MeWrite(r) ==
  /\ reqs[r].op = "users.me.update" /\ reqs[r].pc = "write"
  /\ reqs' = [reqs EXCEPT ![r] = Idle]
  /\ UNCHANGED <<pending, teams, tasks, tokens, counters, history>>
  /\ LET id == reqs[r].id
         body == reqs[r].snap IN
     IF \/ id \notin DOMAIN users
        \/ body.email # Empty /\ EmailUniqueViolated(body.email, id)
     THEN \* no record to update, or the unique email of User is violated
          /\ resp' = Response("users.me.update", id, body.email, 500,
                              "Failed to update user profile")
          /\ UNCHANGED users
     ELSE /\ users' = [users EXCEPT ![id] = MeUpdateData(@, body)]
          /\ resp' = Response("users.me.update", id, body.email, 200, Empty)

\* Registrations, approvals, and profile updates by the user and by an
\* admin, interleaved store call by store call.
EmailBodies == [name : {Empty}, email : Emails, role : {Empty}]
UserIds == 1..MaxUsers

NextEmails ==
  \/ \E n \in Names, e \in Emails, p \in {"pw1"} : Register(n, e, p)
  \/ \E r \in Slots, tok \in Callers, id \in 1..MaxPending :
       ProcessBegin(r, tok, id, "true")
  \/ \E r \in Slots : ProcessCreate(r)
  \/ \E r \in Slots : ProcessDelete(r)
  \/ \E r \in Slots, tok \in tokens, body \in EmailBodies :
       MeBegin(r, tok, body)
  \/ \E r \in Slots : MeWrite(r)
  \/ \E tok \in tokens, id \in UserIds, body \in EmailBodies :
       AdminUpdateUser(tok, id, body)

SpecEmails == InitApprove /\ [][NextEmails]_vars

\* ------------------- POST /api/teams and PUT /api/teams/[id], store call by
\* store call
\* body: [name, leadId]; an Empty name or an Undefined leadId is a field not
\* submitted.
\* Whether Team.name carries a unique index is decided by the Prisma schema;
\* the handlers look names up with findFirst.
TeamNameIndexes == {"unique", "none"}

\* checkManagerOrAdmin, team.findFirst({where: {name}}) and the lookup of
\* the lead
TeamCreateBegin(r, tok, body) ==
  /\ reqs[r].pc = "idle"
  /\ UNCHANGED <<store, tokens, counters, history>>
  /\ IF ~ManagerOrAdmin(tok)
     THEN /\ resp' = Response("team.create", 0, Empty, 403,
                              IF TokenValid(tok)
                              THEN "Admin or Manager access required"
                              ELSE "Authentication failed")
          /\ UNCHANGED reqs
     ELSE IF body.name = Empty
     THEN /\ resp' = Response("team.create", 0, Empty, 400,
                              "Team name is required")
          /\ UNCHANGED reqs
     ELSE IF TeamsByName(body.name) # {}
     THEN /\ resp' = Response("team.create", 0, Empty, 400,
                              "Team name already exists")
          /\ UNCHANGED reqs
     ELSE IF body.leadId \notin {Undefined, Null}
             /\ body.leadId \notin DOMAIN users
     THEN /\ resp' = Response("team.create", 0, Empty, 400,
                              "Team lead not found")
          /\ UNCHANGED reqs
     ELSE /\ reqs' = [reqs EXCEPT ![r] =
                        [pc |-> "write", op |-> "team.create", id |-> 0,
                         flag |-> FALSE,
                         snap |-> [name |-> body.name,
                                   leadId |-> IF body.leadId = Undefined
                                              THEN Null ELSE body.leadId]]]
          /\ UNCHANGED resp

\* prisma.team.create({data: {name, leadId: leadId || null}})
TeamCreateWrite(r) ==
  /\ reqs[r].op = "team.create" /\ reqs[r].pc = "write"
  /\ nextTeam <= MaxTeams
  /\ reqs' = [reqs EXCEPT ![r] = Idle]
  /\ UNCHANGED <<users, pending, tasks, tokens, nextUser, nextPending,
                 nextTask, history>>
  /\ \E index \in TeamNameIndexes :
       IF \/ reqs[r].snap.leadId # Null /\ reqs[r].snap.leadId \notin DOMAIN users
          \/ index = "unique" /\ TeamsByName(reqs[r].snap.name) # {}
       THEN \* the store refuses the row
            /\ resp' = Response("team.create", 0, Empty, 500,
                                "Failed to create team")
            /\ UNCHANGED <<teams, nextTeam>>
       ELSE /\ teams' = Put(teams, nextTeam, reqs[r].snap)
            /\ nextTeam' = nextTeam + 1
            /\ resp' = Response("team.create", nextTeam, Empty, 200, Empty)

\* checkManagerOrAdmin, team.findUnique, team.findFirst for another team of
\* the name, and the lookup of the lead
TeamUpdateBegin(r, tok, teamId, body) ==
  /\ reqs[r].pc = "idle"
  /\ UNCHANGED <<store, tokens, counters, history>>
  /\ IF ~ManagerOrAdmin(tok)
     THEN /\ resp' = Response("team.update", teamId, Empty, 403,
                              IF TokenValid(tok)
                              THEN "Admin or Manager access required"
                              ELSE "Authentication failed")
          /\ UNCHANGED reqs
     ELSE IF teamId \notin DOMAIN teams
     THEN /\ resp' = Response("team.update", teamId, Empty, 404,
                              "Team not found")
          /\ UNCHANGED reqs
     ELSE IF /\ body.name # Empty /\ body.name # teams[teamId].name
             /\ TeamsByName(body.name) \ {teamId} # {}
     THEN /\ resp' = Response("team.update", teamId, Empty, 400,
                              "Team name already exists")
          /\ UNCHANGED reqs
     ELSE IF body.leadId \notin {Undefined, Null}
             /\ body.leadId \notin DOMAIN users
     THEN /\ resp' = Response("team.update", teamId, Empty, 400,
                              "Team lead not found")
          /\ UNCHANGED reqs
     ELSE /\ reqs' = [reqs EXCEPT ![r] =
                        [pc |-> "write", op |-> "team.update", id |-> teamId,
                         flag |-> FALSE,
                         snap |-> [name |-> IF body.name # Empty
                                            THEN body.name
                                            ELSE teams[teamId].name,
                                   leadId |-> IF body.leadId # Undefined
                                              THEN body.leadId
                                              ELSE teams[teamId].leadId]]]
          /\ UNCHANGED resp

\* prisma.team.update({where: {id}, data: {name, leadId}})
TeamUpdateWrite(r) ==
  /\ reqs[r].op = "team.update" /\ reqs[r].pc = "write"
  /\ reqs' = [reqs EXCEPT ![r] = Idle]
  /\ UNCHANGED <<users, pending, tasks, tokens, counters, history>>
  /\ LET id == reqs[r].id IN
     \E index \in TeamNameIndexes :
       IF \/ id \notin DOMAIN teams
          \/ reqs[r].snap.leadId # Null /\ reqs[r].snap.leadId \notin DOMAIN users
          \/ index = "unique" /\ TeamsByName(reqs[r].snap.name) \ {id} # {}
       THEN \* the store refuses the update
            /\ resp' = Response("team.update", id, Empty, 500,
                                "Failed to update team")
            /\ UNCHANGED teams
       ELSE /\ teams' = [teams EXCEPT ![id] = reqs[r].snap]
            /\ resp' = Response("team.update", id, Empty, 200, Empty)

TeamBodies == [name : {Empty, "Ops", "Sales"}, leadId : {Undefined, 2, 9}]

NextTeamNames ==
  \/ \E r \in Slots, tok \in Callers, body \in TeamBodies :
       TeamCreateBegin(r, tok, body)
  \/ \E r \in Slots : TeamCreateWrite(r)
  \/ \E r \in Slots, tok \in Callers, id \in TeamIds, body \in TeamBodies :
       TeamUpdateBegin(r, tok, id, body)
  \/ \E r \in Slots : TeamUpdateWrite(r)

SpecTeamNames == InitTeamDelete /\ [][NextTeamNames]_vars

\* ------------------------------------- PUT /api/tasks, store call by store
\* call
\* verifyToken, task.findMany({where: {id: {in: taskIds}}}) and the check of
\* the rows it returned
BatchBegin(r, tok, taskIds, updates) ==
  /\ reqs[r].pc = "idle"
  /\ UNCHANGED <<store, tokens, counters, history>>
  /\ IF ~TokenValid(tok)
     THEN /\ resp' = Response("task.batchUpdate", 0, Empty, 401,
                              "Authentication required")
          /\ UNCHANGED reqs
     ELSE IF Len(taskIds) = 0
     THEN /\ resp' = Response("task.batchUpdate", 0, Empty, 400,
                              "Task IDs array is required")
          /\ UNCHANGED reqs
     ELSE IF \E t \in Range(taskIds) \cap DOMAIN tasks : NotOwnTask(tok, t)
     THEN /\ resp' = Response("task.batchUpdate", 0, Empty, 403,
                              "You can only update your own tasks")
          /\ UNCHANGED reqs
     ELSE /\ reqs' = [reqs EXCEPT ![r] =
                        [pc |-> "write", op |-> "task.batchUpdate",
                         id |-> tok.id, flag |-> tok.role = "employee",
                         snap |-> [tok |-> tok, ids |-> Range(taskIds),
                                   updates |-> updates]]]
          /\ UNCHANGED resp

\* task.updateMany({where: {id: {in: taskIds}}, data: allowedUpdates})
BatchWrite(r) ==
  /\ reqs[r].op = "task.batchUpdate" /\ reqs[r].pc = "write"
  /\ reqs' = [reqs EXCEPT ![r] = Idle]
  /\ UNCHANGED <<users, pending, teams, tokens, counters, history>>
  /\ LET tok == reqs[r].snap.tok
         updates == reqs[r].snap.updates
         found == reqs[r].snap.ids \cap DOMAIN tasks IN
     IF /\ found # {}
        /\ tok.role # "employee"
        /\ updates.assignedTo # Null
        /\ updates.assignedTo \notin DOMAIN users
     THEN \* updateMany violates the foreign key of Task.assignedTo
          /\ resp' = Response("task.batchUpdate", 0, Empty, 500,
                              "Failed to update tasks")
          /\ UNCHANGED tasks
     ELSE /\ tasks' = [t \in DOMAIN tasks |->
                         IF t \in found
                         THEN BatchUpdateData(tok, tasks[t], updates)
                         ELSE tasks[t]]
          /\ resp' = Response("task.batchUpdate", 0, Empty, 200, Empty)

\* Batch updates interleaved with the requests of a manager that create and
\* reassign tasks.
BatchBodies ==
  {[NoFields EXCEPT !.status = "completed"],
   [NoFields EXCEPT !.title = "T2", !.assignedTo = 3]}
BatchCreateBodies == {b \in CreateBodies : b.title # Empty}
BatchAssignBodies ==
  {b \in UpdateBodies : b.status = Empty /\ b.assignedTo # Null}

NextBatch ==
  \/ \E r \in Slots, tok \in Callers, ids \in TaskIdLists,
        updates \in BatchBodies : BatchBegin(r, tok, ids, updates)
  \/ \E r \in Slots : BatchWrite(r)
  \/ \E tok \in Callers, body \in BatchCreateBodies : TaskCreate(tok, body)
  \/ \E tok \in Callers, id \in TaskIds, body \in BatchAssignBodies :
       TaskUpdate(tok, id, body)

SpecBatch == InitTeamDelete /\ [][NextBatch]_vars

\* ===================================================================== C1
\* C1: every Task update issued with an employee's token, by PUT
\* /api/tasks/[id] and by PUT /api/tasks alike, changes no field of any Task
\* other than status.
OnlyStatusChanged ==
  /\ DOMAIN tasks' = DOMAIN tasks
  /\ \A t \in DOMAIN tasks :
       tasks'[t] = [tasks[t] EXCEPT !.status = tasks'[t].status]

C1_EmployeeOnlyStatus ==
  [][\A tok \in Callers, body \in UpdateBodies :
       tok.role = "employee" =>
         /\ \A id \in TaskIds :
              TaskUpdate(tok, id, body) => OnlyStatusChanged
         /\ \A ids \in TaskIdLists :
              TaskBatchUpdate(tok, ids, body) => OnlyStatusChanged]_vars

\* ===================================================================== C3
\* C3: in every reachable state every Task with an assignee is assigned to
\* a User who is a member of the Task's team.
C3_AssigneeInTeam ==
  \A t \in DOMAIN tasks :
    tasks[t].assignedTo # Null
      => MemberOfTeam(tasks[t].assignedTo, tasks[t].teamId)

\* ===================================================================== C4
\* C4: Team.delete is atomic under concurrent requests: no state is
\* reachable in which a Task or a User references a Team row that is gone,
\* or in which the members of a team were cleared by Team.delete while the
\* Team row remains.
C4_TeamDeleteAtomic ==
  /\ \A t \in DOMAIN tasks :
       tasks[t].teamId # Null => tasks[t].teamId \in DOMAIN teams
  /\ \A u \in DOMAIN users :
       users[u].teamId # Null => users[u].teamId \in DOMAIN teams
  /\ \A id \in clearedTeams : id \notin DOMAIN teams

\* ===================================================================== C6
\* C6: approval is atomic and a registration gets one disposition: no state
\* is reachable in which the User created by an approval exists while the
\* Temp_User it came from still exists, or in which a registration was both
\* approved and rejected.
C6_ApproveAtomic ==
  \A id \in approvedFrom :
    id \notin DOMAIN pending /\ id \notin rejected

\* ===================================================================== C5
\* C5: Team.delete by a manager or admin on a team that owns a task answers
\* 400 "Cannot delete team with active tasks" and leaves the team row, its
\* members' teamId and its tasks unchanged.
C5_TeamDeleteConflict ==
  [][\A tok \in Callers, id \in DOMAIN teams :
       (/\ resp'.op = "team.delete" /\ resp'.id = id
        /\ ManagerOrAdmin(tok) /\ TasksOf(id) # {}
        /\ TeamDelete(tok, id))
         => /\ resp'.status = 400
            /\ resp'.error = "Cannot delete team with active tasks"
            /\ UNCHANGED <<teams, users, tasks>>]_vars

C5_Witness ==
  /\ resp.op = "team.delete"
  /\ resp.status = 400
  /\ resp.id \in DOMAIN teams
  /\ TasksOf(resp.id) # {}
  /\ MembersOf(resp.id) # {}

\* ===================================================================== C2
\* C2: approve and reject are admin-only: a request without a valid token
\* or with a role other than admin is refused (401 / 403) and changes
\* neither the User table nor the Temp_User table.  Stated for the requests
\* that name an existing Temp_User.
C2_ProcessAdminOnly ==
  [][\A tok \in Callers, a \in {"true", "false"} :
       \A id \in DOMAIN pending :
         (ProcessRegistration(tok, id, a) /\ tok.role # "admin")
           => (resp'.status \in {401, 403} /\ UNCHANGED <<users, pending>>)]_vars

\* ===================================================================== C7
\* C7: Approved and Rejected are terminal: once a registration has been
\* approved or rejected, every later approve or reject of the same id
\* answers 404 and changes neither the User nor the Temp_User table.
C7_DisposedIsTerminal ==
  [][\A tok \in Callers, a \in {"true", "false"} :
       \A id \in disposed :
         ProcessRegistration(tok, id, a)
           => (resp'.status = 404 /\ UNCHANGED <<users, pending>>)]_vars

C7_Witness ==
  /\ resp.op = "process"
  /\ resp.id \in disposed
  /\ resp.status = 404

\* ===================================================================== C8
\* C8: a successful approve of Temp_User {n, e, h} leaves a new User with
\* name n, email e, password hash h and role employee and no Temp_User of
\* that id; a successful reject leaves no Temp_User of that id and the same
\* Users.
C8_ProcessOutcome ==
  [][\A tok \in Callers, id \in DOMAIN pending :
       /\ (ProcessRegistration(tok, id, "true") /\ resp'.status = 200)
            => /\ id \notin DOMAIN pending'
               /\ \E u \in DOMAIN users' \ DOMAIN users :
                    /\ users'[u].name = pending[id].name
                    /\ users'[u].email = pending[id].email
                    /\ users'[u].password = pending[id].password
                    /\ users'[u].password \in {hashPassword(p) : p \in Passwords}
                    /\ users'[u].role = "employee"
       /\ (ProcessRegistration(tok, id, "false") /\ resp'.status = 200)
            => /\ id \notin DOMAIN pending'
               /\ users' = users]_vars

C8_Witness ==
  /\ resp.op = "process"
  /\ resp.status = 200
  /\ resp.id \in approvedFrom
  /\ resp.id \notin DOMAIN pending
  /\ \E u \in DOMAIN users : users[u].email = resp.email /\ users[u].role = "employee"

\* ===================================================================== C9
\* C9: a register call whose email belongs to a User answers 400 and creates
\* no Temp_User; when name and password are given the error is the conflict
\* "Email already registered".
C9_RegisterConflict ==
  [][\A n \in RegNames, e \in Emails, p \in RegPasswords :
       (Register(n, e, p) /\ UserByEmail(e) # {})
         => /\ resp'.status = 400
            /\ pending' = pending
            /\ (n # Empty /\ p # Empty)
                 => resp'.error = "Email already registered"]_vars

C9_Witness ==
  /\ resp.op = "register"
  /\ resp.status = 400
  /\ resp.error = "Email already registered"
  /\ UserByEmail(resp.email) # {}

\* ==================================================================== C10
\* C10: a login with email and password given, for an email that a Temp_User
\* holds, answers 403 "Account pending approval" and issues no token,
\* whether or not a User holds that email and whatever the password.
C10_LoginPendingForbidden ==
  [][\A e \in Emails, p \in Passwords :
       (Login(e, p) /\ PendingByEmail(e) # {})
         => /\ resp'.status = 403
            /\ resp'.error = "Account pending approval"
            /\ tokens' = tokens]_vars

\* a User holds the email as well
C10_Witness ==
  /\ resp.op = "login"
  /\ resp.status = 403
  /\ PendingByEmail(resp.email) # {}
  /\ \E u \in UserByEmail(resp.email) :
       users[u].password \in {hashPassword(p) : p \in Passwords}

\* ==================================================================== C11
\* removeMembers(T, S) answering 200 right after addMembers(T, S) answered
\* 200
RoundTrip(tok, teamId, userIds) ==
  /\ reqs.op = "team.addMembers" /\ resp.status = 200
  /\ reqs.id = teamId
  /\ reqs.ids = Range(userIds)
  /\ MembersRemove(tok, teamId, userIds)
  /\ resp'.status = 200

\* C11 as stated: addMembers(T, S) followed by removeMembers(T, S) leaves
\* every user of S with no team and T with as many members as before
\* addMembers.
C11_RoundTripSameCount ==
  [][\A tok \in Callers, id \in MemberTeamIds, ids \in MemberIdLists :
       RoundTrip(tok, id, ids) =>
         /\ \A u \in Range(ids) : users'[u].teamId = Null
         /\ Cardinality(MembersIn(users', id)) = Cardinality(reqs.before)]_vars

\* C11 amended: addMembers(T, S) followed by removeMembers(T, S) leaves
\* every user of S with no team, and T with the members it had before
\* addMembers less those that are in S (the same count when no user of S
\* was a member of T already).
C11_RoundTrip ==
  [][\A tok \in Callers, id \in MemberTeamIds, ids \in MemberIdLists :
       RoundTrip(tok, id, ids) =>
         /\ \A u \in Range(ids) : users'[u].teamId = Null
         /\ MembersIn(users', id) = reqs.before \ Range(ids)]_vars

\* a round trip has just completed for users that came from another team
\* or from none, next to a member that stayed
C11_Witness ==
  /\ resp.op = "team.removeMembers" /\ resp.status = 200
  /\ reqs.op = "team.removeMembers" /\ reqs.id = 1
  /\ reqs.ids = {3, 4} /\ reqs.before = {2, 3, 4}
  /\ users[3].teamId = Null /\ users[4].teamId = Null
  /\ MembersOf(1) = {2}

\* ==================================================================== C12
\* C12: addMembers answers 404 for a team that does not exist and 400 'One
\* or more users not found' when an id of userIds is of no User, and in
\* both cases changes no user.
C12_AddAllOrNothing ==
  [][\A tok \in Callers, id \in MemberTeamIds, ids \in MemberIdLists :
       (MembersAdd(tok, id, ids) /\ ManagerOrAdmin(tok) /\ Len(ids) > 0) =>
         /\ id \notin DOMAIN teams =>
              resp'.status = 404 /\ UNCHANGED users
         /\ (id \in DOMAIN teams /\ ~(Range(ids) \subseteq DOMAIN users)) =>
              /\ resp'.status = 400
              /\ resp'.error = "One or more users not found"
              /\ UNCHANGED users]_vars

\* addMembers for an existing and a missing user was refused, the existing
\* one still outside the team
C12_Witness ==
  /\ resp.op = "team.addMembers" /\ resp.status = 400
  /\ resp.error = "One or more users not found"
  /\ reqs.id = 2 /\ reqs.ids = {3, 9} /\ users[3].teamId # 2

\* ==================================================================== C13
\* C13: removeMembers on an existing team answers 200 and clears the team
\* of exactly the users of userIds that are members of it; every other
\* user, and every other field, is unchanged.
C13_RemoveOnlyMembers ==
  [][\A tok \in Callers, id \in MemberTeamIds, ids \in MemberIdLists :
       (/\ MembersRemove(tok, id, ids)
        /\ ManagerOrAdmin(tok) /\ Len(ids) > 0 /\ id \in DOMAIN teams) =>
         /\ resp'.status = 200
         /\ DOMAIN users' = DOMAIN users
         /\ \A u \in DOMAIN users :
              users'[u] = IF u \in Range(ids) /\ users[u].teamId = id
                          THEN [users[u] EXCEPT !.teamId = Null]
                          ELSE users[u]]_vars

\* removeMembers named a member of another team and an id of no user, and
\* succeeded with that member still in the other team
C13_Witness ==
  /\ resp.op = "team.removeMembers" /\ resp.status = 200
  /\ reqs.id = 2 /\ reqs.ids = {3, 9} /\ reqs.before = {4}
  /\ users[3].teamId = 1 /\ users[4].teamId = 2

\* ==================================================================== C14
\* C14: whatever filters an employee gives to the task listing, every task
\* returned is assigned to that employee.
C14_EmployeeListsOwn ==
  (resp.op = "task.list" /\ resp.status = 200 /\ resp.role = "employee") =>
    \A t \in resp.data : t \in DOMAIN tasks /\ tasks[t].assignedTo = resp.id

\* an employee asked for the tasks of another user, who has one, and got
\* none
C14_Witness ==
  /\ resp.op = "task.list" /\ resp.status = 200
  /\ resp.id = 3 /\ resp.asked = 4
  /\ \E t \in DOMAIN tasks : tasks[t].assignedTo = 4
  /\ resp.data = {}

\* ==================================================================== C15
\* C15: Task.create (here with a body that has every required field) and
\* Task.delete by a caller whose token carries a role other than admin or
\* manager answer 403 and create or delete no Task.
C15_TaskRightsByRole ==
  [][\A tok \in Callers :
       (TokenValid(tok) /\ tok.role \notin {"admin", "manager"}) =>
         /\ \A body \in {b \in CreateBodies : b.title # Empty} :
              TaskCreate(tok, body) => resp'.status = 403 /\ UNCHANGED tasks
         /\ \A id \in TaskIds :
              TaskDelete(tok, id) => resp'.status = 403 /\ UNCHANGED tasks]_vars

\* ==================================================================== C16
\* C16: a single-task update by an employee on a task assigned to someone
\* else or to nobody, and a batch update by an employee whose taskIds name
\* such a task, answer 403 and change no task.
C16_EmployeeOwnTasksOnly ==
  [][/\ resp'.op = "task.update" =>
          \A tok \in Callers, body \in UpdateBodies :
            (/\ tok.role = "employee"
             /\ resp'.id \in DOMAIN tasks
             /\ tasks[resp'.id].assignedTo # tok.id
             /\ TaskUpdate(tok, resp'.id, body)) =>
              resp'.status = 403 /\ UNCHANGED tasks
     /\ resp'.op = "task.batchUpdate" =>
          \A tok \in Callers, ids \in TaskIdLists, body \in UpdateBodies :
            (/\ tok.role = "employee"
             /\ \E t \in Range(ids) \cap DOMAIN tasks :
                  tasks[t].assignedTo # tok.id
             /\ TaskBatchUpdate(tok, ids, body)) =>
              resp'.status = 403 /\ UNCHANGED tasks]_vars

\* a batch update was refused while a task assigned to an employee exists
C16_Witness ==
  /\ resp.op = "task.batchUpdate" /\ resp.status = 403
  /\ \E t \in DOMAIN tasks : tasks[t].assignedTo \in Staff

\* ==================================================================== C17
\* the Task row that a successful create adds
CreatedTask(tok, body) ==
  /\ DOMAIN tasks' = DOMAIN tasks \cup {nextTask}
  /\ nextTask \notin DOMAIN tasks
  /\ \A t \in DOMAIN tasks : tasks'[t] = tasks[t]
  /\ tasks'[nextTask].status = "pending"
  /\ tasks'[nextTask].priority =
       (IF body.priority # Empty THEN body.priority ELSE "medium")
  /\ tasks'[nextTask].assignedBy = tok.id

\* C17: Task.create by a manager or admin creates no Task and answers 400
\* when title, description or teamId is missing, 404 when teamId is of no
\* team, 400 when assignedTo is given and is not a member of the team;
\* otherwise it creates exactly one Task with status pending, priority
\* medium unless one is given, and assignedBy the caller.
C17_CreateOutcome ==
  [][\A tok \in Callers, body \in CreateBodies :
       (resp'.op = "task.create" /\ ManagerOrAdmin(tok)
        /\ TaskCreate(tok, body)) =>
         IF body.title = Empty \/ body.description = Empty
            \/ body.teamId = Null
         THEN resp'.status = 400 /\ UNCHANGED tasks
         ELSE IF body.teamId \notin DOMAIN teams
         THEN resp'.status = 404 /\ UNCHANGED tasks
         ELSE IF body.assignedTo # Null
                 /\ ~MemberOfTeam(body.assignedTo, body.teamId)
         THEN resp'.status \in {400, 409} /\ UNCHANGED tasks
         ELSE resp'.status = 200 /\ CreatedTask(tok, body)]_vars

\* ==================================================================== C18
\* C18: PUT /api/users/me changes at most the name and the email of the
\* caller's own User row, whatever the body holds; when the email given
\* belongs to another User the call answers 400 and changes nothing.
C18_UpdateMeFrame ==
  [][\A tok \in Callers, body \in ProfileBodies :
       (/\ resp'.op = "users.me.update" /\ resp'.email = body.email
        /\ resp'.id = (IF TokenValid(tok) THEN tok.id ELSE 0)
        /\ UpdateMe(tok, body)) =>
         /\ DOMAIN users' = DOMAIN users
         /\ \A u \in DOMAIN users :
              users'[u] = IF u = tok.id
                          THEN [users[u] EXCEPT !.name = users'[u].name,
                                                !.email = users'[u].email]
                          ELSE users[u]
         /\ (/\ TokenValid(tok) /\ body.email # Empty
             /\ UserByEmail(body.email) \ {tok.id} # {}) =>
              resp'.status \in {400, 409} /\ UNCHANGED users]_vars

\* an employee sent a new name and email together with a role and a team,
\* and is an employee of the old team under the new name and email
C18_Witness ==
  /\ resp.op = "users.me.update" /\ resp.status = 200 /\ resp.id = 3
  /\ users[3].name = "Zed" /\ users[3].email = "new@x"
  /\ users[3].role = "employee" /\ users[3].teamId = 1

\* ==================================================================== C19
\* C19: in every reachable state, with registrations, approvals,
\* self-updates and admin updates interleaved, no two Users have the same
\* email.
C19_UserEmailUnique ==
  \A u, v \in DOMAIN users : users[u].email = users[v].email => u = v

\* a self-update passed its own check for the email, another request gave
\* the email to a User in between, and the write was refused
C19_Witness ==
  /\ resp.op = "users.me.update" /\ resp.status = 500
  /\ resp.id \in DOMAIN users
  /\ UserByEmail(resp.email) \ {resp.id} # {}

AnsweredForbidden == resp'.status = 403 /\ UNCHANGED store

\* C21: each admin-only user endpoint (list users, update user, get, update
\* and delete user by id, list pending registrations) called with a valid
\* token whose role is not admin answers 403 and changes nothing.
C21_NonAdminForbidden ==
  [][\A tok \in Callers :
       (TokenValid(tok) /\ tok.role # "admin") =>
         /\ UsersList(tok) => AnsweredForbidden
         /\ \A body \in PutBodies :
              UsersUpdate(tok, body) => AnsweredForbidden
         /\ \A id \in Staff \cup {9} : UserGet(tok, id) => AnsweredForbidden
         /\ \A id \in Staff, body \in AdminBodies :
              AdminUpdateUser(tok, id, body) => AnsweredForbidden
         /\ \A id \in Staff \cup {9} :
              UserDelete(tok, id) => AnsweredForbidden
         /\ PendingList(tok) => AnsweredForbidden]_vars

\* ==================================================================== C22
\* the response is Unauthenticated and no table has changed
AnsweredUnauthenticated == resp'.status = 401 /\ UNCHANGED store

\* C22: every task, team, team-member, user and approval endpoint called
\* without a token that verifies answers 401 and changes nothing.
C22_NoTokenUnauthenticated ==
  [][/\ \A body \in GuardTaskBodies :
          TaskCreate(NoToken, body) => AnsweredUnauthenticated
     /\ \A id \in TaskIds :
          TaskDelete(NoToken, id) => AnsweredUnauthenticated
     /\ TeamsList(NoToken) => AnsweredUnauthenticated
     /\ \A body \in GuardTeamBodies :
          TeamCreate(NoToken, body) => AnsweredUnauthenticated
     /\ \A id \in TeamIds :
          TeamDelete(NoToken, id) => AnsweredUnauthenticated
     /\ AddMembers(NoToken, 2, <<3>>) => AnsweredUnauthenticated
     /\ RemoveMembers(NoToken, 2, <<3>>) => AnsweredUnauthenticated
     /\ UsersList(NoToken) => AnsweredUnauthenticated
     /\ UserDelete(NoToken, 4) => AnsweredUnauthenticated
     /\ MeGet(NoToken) => AnsweredUnauthenticated
     /\ \A body \in GuardMeBodies :
          UpdateMe(NoToken, body) => AnsweredUnauthenticated
     /\ PendingList(NoToken) => AnsweredUnauthenticated
     /\ \A a \in {"true", "false"} :
          ProcessRegistration(NoToken, 1, a) => AnsweredUnauthenticated]_vars

\* ==================================================================== C23
\* C23: a request that is answered with an error (a status of 400 or
\* more) leaves every table as it was; in particular Team.create with a
\* memberIds that names no existing User leaves no new team behind.
C23_ErrorsChangeNothing ==
  [][resp'.status >= 400 => UNCHANGED store]_vars

\* ==================================================================== C24
\* the approve of the Temp_User id has completed: user.create ran and the
\* Temp_User row was deleted, and not by a reject
ApproveCompleted(id) ==
  id \in approvedFrom /\ id \notin DOMAIN pending /\ id \notin rejected

\* C24: a login with the email and password given to register succeeds
\* only when an approve of a registration with these credentials has
\* completed, and when no registration of the email that is not older than
\* it was rejected.
C24_LoginOnlyAfterApprove ==
  [][\A e \in Emails, p \in Passwords :
       (Login(e, p) /\ resp'.status = 200) =>
         \E id \in DOMAIN registered :
           /\ registered[id] = [email |-> e, password |-> hashPassword(p)]
           /\ ApproveCompleted(id)
           /\ \A other \in rejected :
                registered[other].email = e => other < id]_vars

\* ==================================================================== C25
\* C25: logout changes no table and no token; a token that verified before
\* a logout, a change of the user's role or the deletion of the user still
\* verifies afterwards, with the same claims; and the guards verifyToken,
\* isManagerOrAdmin and isAdmin decide by the claims of the token alone,
\* whatever role the User row holds and whether or not it exists.
C25_SessionsStateless ==
  [][/\ tokens \subseteq tokens'
     /\ \A tok \in Callers :
          /\ Logout(tok) => UNCHANGED <<store, tokens>>
          /\ MeGet(tok) => (resp'.status # 401 <=> tok \in tokens)
          /\ TeamsList(tok) =>
               (resp'.status = 200 <=>
                  (tok \in tokens /\ tok.role \in {"admin", "manager"}))
          /\ UsersList(tok) =>
               (resp'.status = 200 <=>
                  (tok \in tokens /\ tok.role = "admin"))]_vars

\* the manager was demoted or deleted, and the token issued to them as a
\* manager has just passed the guard of the team listing
C25_Witness ==
  /\ resp.op = "team.list" /\ resp.status = 200 /\ resp.id = 2
  /\ 2 \in DOMAIN users => users[2].role = "employee"

\* ==================================================================== C26
\* C26: in every reachable state, after any sequence of register, approve,
\* reject and updates of a user's email, no email is held by both a
\* Temp_User and a User (so that no User is refused login as pending).
C26_NoPendingUserEmail ==
  \A p \in DOMAIN pending : UserByEmail(pending[p].email) = {}

\* ==================================================================== C27
\* C27: addMembers(T, userIds) changes the membership of T only: every
\* other team has the same members after the call as before it, also when
\* a user of userIds is a member of that other team.
C27_AddMembersOtherTeams ==
  [][\A tok \in Callers, id \in MemberTeamIds, ids \in MemberIdLists :
       MembersAdd(tok, id, ids) =>
         \A other \in DOMAIN teams \ {id} :
           MembersIn(users', other) = MembersIn(users, other)]_vars

\* ==================================================================== C28
\* a request made without an admin's token: one that carries no token, or
\* whose handler reads none, or whose token has another role
NonAdminRequest ==
  \/ \E e \in Emails : Register("Ann", e, "pw1")
  \/ \E e \in Emails : Login(e, "pw1")
  \/ \E tok \in Callers :
       /\ tok.role # "admin"
       /\ \/ \E id \in 1..MaxPending : ProcessRegistration(tok, id, "true")
          \/ \E body \in RoleGrabBodies : UpdateMe(tok, body)
          \/ \E body \in SessionBodies : AdminUpdateUser(tok, 2, body)
          \/ \E body \in RolePutBodies : UsersUpdate(tok, body)
          \/ \E body \in RoleTeamBodies : TeamCreate(tok, body)
          \/ \E body \in RoleTaskBodies : TaskCreate(tok, body)

\* C28: a request made without an admin's token (register, approve, login,
\* profile update, a call of the admin's update endpoints, a team or task
\* request) leaves every existing User with the role it had: a step that
\* changes a role is the step of no such request.
C28_RolesSetByAdminOnly ==
  [][(\E u \in DOMAIN users :
        u \notin DOMAIN users' \/ users'[u].role # users[u].role) =>
       ~NonAdminRequest]_vars

\* an approved user who became manager has sent role admin in a profile
\* update, which was accepted, and is manager still
C28_Witness ==
  /\ resp.op = "users.me.update" /\ resp.status = 200 /\ resp.id = 2
  /\ users[2].name = "Zed" /\ users[2].role = "manager"
  /\ generateToken(2, "manager") \in tokens

\* ==================================================================== C29
\* C29: addMembers(T, userIds) by a manager or admin, for an existing team
\* T and a non-empty userIds of which every element is the id of a User,
\* answers 200 and makes every listed user a member of T, also when an id
\* occurs in userIds more than once.
C29_AddMembersSucceeds ==
  [][\A tok \in Callers, id \in MemberTeamIds, ids \in MemberIdLists :
       (/\ MembersAdd(tok, id, ids)
        /\ ManagerOrAdmin(tok) /\ Len(ids) > 0 /\ id \in DOMAIN teams
        /\ Range(ids) \subseteq DOMAIN users) =>
         /\ resp'.status = 200
         /\ \A u \in Range(ids) : users'[u].teamId = id]_vars

\* ==================================================================== C30
\* C30: in any interleaving, the updateMany of an employee's batch update
\* changes only tasks that are assigned to that employee at the moment it
\* runs.
C30_BatchWritesOwnTasks ==
  [][\A r \in Slots :
       (reqs[r].flag /\ BatchWrite(r)) =>
         \A t \in DOMAIN tasks :
           tasks'[t] # tasks[t] => tasks[t].assignedTo = reqs[r].id]_vars

====
